---------------------------- MODULE Spec2Model ----------------------------
(***************************************************************************)
(* A model of fund-info-fetcher's main.py: the start-up update check, the  *)
(* self-update (release lookup, download, extraction, versioned install),  *)
(* the argument check, the cleaning of the fund-code list and the export   *)
(* of the fund records to an xlsx document.                                *)
(*                                                                         *)
(* Text is modelled as a sequence of one-character strings.  The words the *)
(* prompts compare the answer with, "是" and "否", are written "YES" and   *)
(* "NO"; "FW1" stands for U+FF11, a decimal digit outside ASCII.           *)
(***************************************************************************)
EXTENDS Integers, Sequences, FiniteSets

VARIABLES
    pc,                \* position of the single thread of control
    exc,               \* the exception that ended the process, "" if none
    cause,             \* __cause__ of exc (raise ... from ...), "" if none
    remote,            \* tag_name of the latest release on the server
    latest_version,    \* check_update's latest_version
    update_choice,     \* check_update's choice
    tempdir,           \* update's TemporaryDirectory: NoDir or Dir(its files)
    assets,            \* get_latest_released_asset's assets
    downloaded,        \* the asset whose url was requested, None if none was
    installed,         \* the file update() moved into the working directory
    yes_to_all,        \* main's yes_to_all
    in_exists,         \* os.path.exists(in_filename)
    out_existing,      \* what is at out_filename when the process starts
    out_written,       \* what this process wrote at out_filename
    overwrite_choice,  \* check_args's choice
    codes,             \* main's codes
    infos,             \* main's infos
    doc,               \* the calls made on the workbook and its worksheet
    row                \* write_to_xlsx's row

vars == <<pc, exc, cause, remote, latest_version, update_choice, tempdir,
          assets, downloaded, installed, yes_to_all, in_exists, out_existing,
          out_written, overwrite_choice, codes, infos, doc, row>>

\* A variable that may hold no value holds the set of its values: none or one.
None == {}
Some(x) == {x}
The(o) == CHOOSE x \in o : TRUE

\* The temporary directory: absent, or present with the files in it.
NoDir == [exists |-> FALSE, files |-> {}]
Dir(files) == [exists |-> TRUE, files |-> files]

---------------------------------------------------------------------------
(* Bounds of the inputs *)

MaxAssets == 2
MaxLines == 2

---------------------------------------------------------------------------
(* Characters and integers *)

AsciiDigits == {"0", "1", "2", "3", "4", "5", "6", "7", "8", "9"}

\* What \d matches in a str pattern: every Unicode decimal digit.
DecimalDigits == AsciiDigits \cup {"FW1"}

DigitValue(c) ==
    CASE c = "0" -> 0 [] c = "1" -> 1 [] c = "2" -> 2 [] c = "3" -> 3
      [] c = "4" -> 4 [] c = "5" -> 5 [] c = "6" -> 6 [] c = "7" -> 7
      [] c = "8" -> 8 [] c = "9" -> 9 [] c = "FW1" -> 1

RECURSIVE ToInt(_)
ToInt(s) ==
    IF s = <<>> THEN 0
    ELSE 10 * ToInt(SubSeq(s, 1, Len(s) - 1)) + DigitValue(s[Len(s)])

\* The length of the longest run of \d characters of s that starts at i.
RECURSIVE DigitRun(_, _)
DigitRun(s, i) ==
    IF i <= Len(s) /\ s[i] \in DecimalDigits THEN 1 + DigitRun(s, i + 1) ELSE 0

---------------------------------------------------------------------------
(* parse_version_number *)

NoMatch == <<>>

\* re.match(r"v?(\d+)\.(\d+)\.(\d+)", s): anchored at the start of s only.
\* A run of digits is never followed by a digit, so each greedy \d+ takes
\* the whole run and backtracking finds nothing more.
parse_version_number(s) ==
    LET i1 == IF Len(s) >= 1 /\ s[1] = "v" THEN 2 ELSE 1
        n1 == DigitRun(s, i1)
        i2 == i1 + n1 + 1
        n2 == DigitRun(s, i2)
        i3 == i2 + n2 + 1
        n3 == DigitRun(s, i3)
    IN  IF /\ n1 >= 1
           /\ i2 - 1 <= Len(s) /\ s[i2 - 1] = "."
           /\ n2 >= 1
           /\ i3 - 1 <= Len(s) /\ s[i3 - 1] = "."
           /\ n3 >= 1
        THEN << ToInt(SubSeq(s, i1, i1 + n1 - 1)),
                ToInt(SubSeq(s, i2, i2 + n2 - 1)),
                ToInt(SubSeq(s, i3, i3 + n3 - 1)) >>
        ELSE NoMatch

\* __version__ = "0.2.0"
LocalVersion == << "0", ".", "2", ".", "0" >>

VersionGreaterOrEqual(a, b) ==
    LET d == {i \in 1..3 : a[i] # b[i]}
    IN  d = {} \/ \E i \in d : (\A j \in d : i <= j) /\ a[i] > b[i]

\* The > of two tuples of three integers: the first differing position decides.
VersionGreater(a, b) ==
    LET d == {i \in 1..3 : a[i] # b[i]}
    IN  \E i \in d : (\A j \in d : i <= j) /\ a[i] > b[i]

---------------------------------------------------------------------------
(* The release server *)

\* The tags a release may carry.
ReleaseTags ==
    { << "0", ".", "2", ".", "0" >>,
      << "v", "0", ".", "3", ".", "0" >>,
      << "0", ".", "1", ".", "9" >>,
      << "0", ".", "1", "0", ".", "0" >>,
      << "1", ".", "0", ".", "0", ".", "4" >>,
      << "l", "a", "t", "e", "s", "t" >> }

RELEASE_ASSET_NAME == "fund-info-fetcher-win64.zip"

AssetNames == {RELEASE_ASSET_NAME, "fund-info-fetcher-linux.tar.gz"}

\* The "assets" of a release: each has a name and a url of its own.
AssetLists ==
    UNION { { [i \in 1..k |-> [name |-> f[i], url |-> i]] : f \in [1..k -> AssetNames] }
            : k \in 0..MaxAssets }

\* RELEASE_EXECUTABLE_NAME.encode("gbk").decode("cp437"): the name the
\* archive's directory lists the executable under.
transformed_executable_name == "exe-gbk-as-cp437"

\* The member lists an archive may have.
ArchiveMembers == SUBSET {transformed_executable_name, "README.txt"}

ArchiveFile == "fund-info-fetcher-win64.zip"

---------------------------------------------------------------------------
(* The answers typed at a prompt *)

Inputs ==
    { << "YES" >>, << " ", "YES", " " >>, << "NO" >>, << "NO", " " >>,
      << "x" >>, << " " >>, << "YES", "NO" >> }

RECURSIVE LStrip(_)
LStrip(s) == IF s # <<>> /\ s[1] = " " THEN LStrip(Tail(s)) ELSE s

RECURSIVE RStrip(_)
RStrip(s) ==
    IF s # <<>> /\ s[Len(s)] = " " THEN RStrip(SubSeq(s, 1, Len(s) - 1)) ELSE s

\* str.strip()
Strip(s) == RStrip(LStrip(s))

Yes == << "YES" >>
No == << "NO" >>

---------------------------------------------------------------------------
(* Raising *)

\* An exception nothing catches ends the process.
Raise(kind) ==
    /\ pc' = "crashed"
    /\ exc' = kind
    /\ cause' = ""

UpdateRaiseLeak(kind) ==
    /\ Raise(kind)
    /\ UNCHANGED tempdir

\* An exception inside update's "with TemporaryDirectory()": the directory
\* and what is in it are removed as the exception leaves the block.
UpdateRaise(kind) ==
    /\ Raise(kind)
    /\ tempdir' = NoDir

---------------------------------------------------------------------------
(* check_update and update *)

\* The server publishes a release while the process is between its two
\* readings of the latest release.
Publish ==
    /\ pc \in {"cu_prompt", "up_download"}
    /\ \E t \in ReleaseTags \ {remote} : remote' = t
    /\ UNCHANGED <<pc, exc, cause, latest_version, update_choice, tempdir,
                   assets, downloaded, installed, yes_to_all, in_exists,
                   out_existing, out_written, overwrite_choice, codes, infos,
                   doc, row>>

get_latest_released_version ==
    /\ pc = "cu_fetch"
    /\ \/ /\ latest_version' = Some(remote)
          /\ pc' = "cu_compare"
          /\ UNCHANGED <<exc, cause>>
       \/ /\ Raise("ConnectionError")
          /\ UNCHANGED latest_version
    /\ UNCHANGED <<remote, update_choice, tempdir, assets, downloaded,
                   installed, yes_to_all, in_exists, out_existing, out_written,
                   overwrite_choice, codes, infos, doc, row>>

\* if parse_version_number(latest_version) > parse_version_number(__version__)
check_update_compare ==
    /\ pc = "cu_compare"
    /\ LET r == parse_version_number(The(latest_version))
           l == parse_version_number(LocalVersion)
       IN  IF r = NoMatch
           THEN Raise("AttributeError")
           ELSE /\ pc' = IF VersionGreater(r, l) THEN "cu_prompt" ELSE "ca_check"
                /\ UNCHANGED <<exc, cause>>
    /\ UNCHANGED <<remote, latest_version, update_choice, tempdir, assets,
                   downloaded, installed, yes_to_all, in_exists, out_existing,
                   out_written, overwrite_choice, codes, infos, doc, row>>

\* One turn of check_update's prompt loop; "YES" enters update(), whose
\* first step creates the temporary directory.
check_update_prompt ==
    /\ pc = "cu_prompt"
    /\ \E raw \in Inputs :
          /\ update_choice' = Some(Strip(raw))
          /\ pc' = IF Strip(raw) = Yes THEN "up_download"
                   ELSE IF Strip(raw) = No THEN "ca_check"
                   ELSE "cu_prompt"
          /\ tempdir' = IF Strip(raw) = Yes THEN Dir({}) ELSE tempdir
    /\ UNCHANGED <<exc, cause, remote, latest_version, assets, downloaded,
                   installed, yes_to_all, in_exists, out_existing, out_written,
                   overwrite_choice, codes, infos, doc, row>>

Candidates(as, name) == SelectSeq(as, LAMBDA a : a.name = name)

AssetLookupFirst(as, name) ==
    LET candidates == Candidates(as, name)
    IN  IF Len(candidates) = 0
        THEN [error |-> "RuntimeError: No asset", asset |-> None]
        ELSE [error |-> "", asset |-> candidates[1]]

\* The lookup of get_latest_released_asset: an error, or the one candidate.
AssetLookup(as, name) ==
    LET candidates == Candidates(as, name)
    IN  IF Len(candidates) = 0
        THEN [error |-> "RuntimeError: No asset", asset |-> None]
        ELSE IF Len(candidates) > 1
        THEN [error |-> "RuntimeError: More than one assets", asset |-> None]
        ELSE [error |-> "", asset |-> candidates[1]]

\* p.write_bytes(get_latest_released_asset(RELEASE_ASSET_NAME)): the latest
\* release is read again, and the archive is the one built for the release
\* that is the latest now.
get_latest_released_asset ==
    /\ pc = "up_download"
    /\ \/ /\ UpdateRaise("ConnectionError")
          /\ UNCHANGED <<assets, downloaded>>
       \/ \E as \in AssetLists :
            LET found == AssetLookup(as, RELEASE_ASSET_NAME)
            IN  /\ assets' = Some(as)
                /\ IF found.error # ""
                   THEN /\ UpdateRaise(found.error)
                        /\ UNCHANGED downloaded
                   ELSE /\ downloaded' = Some(found.asset)
                        /\ \E ms \in ArchiveMembers :
                              tempdir' = Dir({ [name |-> ArchiveFile,
                                                build |-> remote,
                                                members |-> ms] })
                        /\ pc' = "up_extract"
                        /\ UNCHANGED <<exc, cause>>
    /\ UNCHANGED <<remote, latest_version, update_choice, installed,
                   yes_to_all, in_exists, out_existing, out_written,
                   overwrite_choice, codes, infos, doc, row>>

\* f.extract(transformed_executable_name, path=str(tempdir))
extract ==
    /\ pc = "up_extract"
    /\ LET archive == CHOOSE f \in tempdir.files : f.name = ArchiveFile
       IN  IF transformed_executable_name \in archive.members
           THEN /\ tempdir' = Dir(tempdir.files \cup
                                   { [name |-> transformed_executable_name,
                                      build |-> archive.build,
                                      members |-> {}] })
                /\ pc' = "up_move"
                /\ UNCHANGED <<exc, cause>>
           ELSE UpdateRaise("KeyError")
    /\ UNCHANGED <<remote, latest_version, update_choice, assets, downloaded,
                   installed, yes_to_all, in_exists, out_existing, out_written,
                   overwrite_choice, codes, infos, doc, row>>

AfterUpdateContinue == "ca_check"

\* check_update calls exit() as soon as update() returns.
AfterUpdate == "cu_exit"

\* shutil.move to basename + latest_version + extension in the working
\* directory, then the end of the with block and the return of update().
move ==
    /\ pc = "up_move"
    /\ \/ LET member == CHOOSE f \in tempdir.files : f.name = transformed_executable_name
          IN  /\ installed' = Some([version |-> The(latest_version), build |-> member.build])
              /\ tempdir' = NoDir
              /\ pc' = AfterUpdate
              /\ UNCHANGED <<exc, cause>>
       \/ /\ UpdateRaise("PermissionError")
          /\ UNCHANGED installed
    /\ UNCHANGED <<remote, latest_version, update_choice, assets, downloaded,
                   yes_to_all, in_exists, out_existing, out_written,
                   overwrite_choice, codes, infos, doc, row>>

\* exit() after update(latest_version)
exit_after_update ==
    /\ pc = "cu_exit"
    /\ pc' = "exited"
    /\ UNCHANGED <<exc, cause, remote, latest_version, update_choice, tempdir,
                   assets, downloaded, installed, yes_to_all, in_exists,
                   out_existing, out_written, overwrite_choice, codes, infos,
                   doc, row>>

---------------------------------------------------------------------------
(* check_args *)

NeedsOverwritePromptNever(existing, yes) == FALSE

\* if os.path.isfile(out_filename) and not yes_to_all
NeedsOverwritePrompt(existing, yes) == existing = "file" /\ ~yes

check_args ==
    /\ pc = "ca_check"
    /\ IF ~in_exists
       THEN Raise("FileNotFoundError")
       ELSE IF out_existing = "dir"
       THEN Raise("RuntimeError: directory of the same name")
       ELSE /\ pc' = IF NeedsOverwritePrompt(out_existing, yes_to_all)
                     THEN "ca_prompt" ELSE "read"
            /\ UNCHANGED <<exc, cause>>
    /\ UNCHANGED <<remote, latest_version, update_choice, tempdir, assets,
                   downloaded, installed, yes_to_all, in_exists, out_existing,
                   out_written, overwrite_choice, codes, infos, doc, row>>

\* One turn of check_args's prompt loop; "NO" is exit().
check_args_prompt ==
    /\ pc = "ca_prompt"
    /\ \E raw \in Inputs :
          /\ overwrite_choice' = Some(Strip(raw))
          /\ pc' = IF Strip(raw) = Yes THEN "read"
                   ELSE IF Strip(raw) = No THEN "exited"
                   ELSE "ca_prompt"
    /\ UNCHANGED <<exc, cause, remote, latest_version, update_choice, tempdir,
                   assets, downloaded, installed, yes_to_all, in_exists,
                   out_existing, out_written, codes, infos, doc, row>>

---------------------------------------------------------------------------
(* The list of fund codes *)

\* The lines the input file may hold.
Lines ==
    { << "0", "0", "0", "0", "0", "1" >>,
      << "FW1", "FW1", "FW1", "FW1", "FW1", "FW1" >>,
      << "a", "b", "c" >>,
      << "1", "2", "3", "4", "5" >>,
      << "0", "0", "0", "0", "0", "2", "x" >> }

LineLists == UNION { [1..k -> Lines] : k \in 0..MaxLines }

\* re.fullmatch(r"\d{6}", code)
IsFundCode(code) ==
    Len(code) = 6 /\ \A i \in 1..6 : code[i] \in DecimalDigits

\* codes = Path(in_filename).read_text(encoding="utf-8").splitlines()
read_codes ==
    /\ pc = "read"
    /\ \E ls \in LineLists : codes' = ls
    /\ pc' = "clean"
    /\ UNCHANGED <<exc, cause, remote, latest_version, update_choice, tempdir,
                   assets, downloaded, installed, yes_to_all, in_exists,
                   out_existing, out_written, overwrite_choice, infos, doc, row>>

\* codes = list(filter(lambda code: re.fullmatch(r"\d{6}", code), codes))
clean_codes ==
    /\ pc = "clean"
    /\ codes' = SelectSeq(codes, IsFundCode)
    /\ pc' = "fetch"
    /\ UNCHANGED <<exc, cause, remote, latest_version, update_choice, tempdir,
                   assets, downloaded, installed, yes_to_all, in_exists,
                   out_existing, out_written, overwrite_choice, infos, doc, row>>

---------------------------------------------------------------------------
(* The schema and the records *)

\* fieldnames: 基金名称, 基金代码, 净值日期, 单位净值, 日增长率, 估算日期,
\* 实时估值, 估算增长率, 分红送配
fieldnames ==
    << "fund_name", "fund_code", "nav_date", "unit_nav", "daily_growth",
       "estimate_date", "estimate_value", "estimate_growth", "dividend" >>

fieldtypes ==
    << "string", "string", "date", "number", "string", "string", "number",
       "string", "string" >>

FieldSet == {fieldnames[i] : i \in 1..Len(fieldnames)}

\* The texts float() converts.
FloatTexts == {"1.2340", "1.2400"}

\* The texts datetime.strptime(_, "%Y-%m-%d") converts.
DateTexts == {"2023-01-15"}

ValidInfo ==
    [ fund_name |-> "X", fund_code |-> "000001", nav_date |-> "2023-01-15",
      unit_nav |-> "1.2340", daily_growth |-> "0.52%",
      estimate_date |-> "2023-01-16 15:00", estimate_value |-> "1.2400",
      estimate_growth |-> "0.49%", dividend |-> "none" ]

\* The records get_fund_info may return.
Infos ==
    { ValidInfo,
      [ValidInfo EXCEPT !.unit_nav = "abc"],
      [ValidInfo EXCEPT !.nav_date = "2023/01/15"],
      [f \in FieldSet \ {"estimate_value"} |-> ValidInfo[f]] }

\* infos = [get_fund_info(code) for code in tqdm(codes)]
fetch_infos ==
    /\ pc = "fetch"
    /\ \/ /\ \E is \in [1..Len(codes) -> Infos] : infos' = is
          /\ pc' = "wx_open"
          /\ UNCHANGED <<exc, cause>>
       \/ /\ Raise("ConnectionError")
          /\ UNCHANGED infos
    /\ UNCHANGED <<remote, latest_version, update_choice, tempdir, assets,
                   downloaded, installed, yes_to_all, in_exists, out_existing,
                   out_written, overwrite_choice, codes, doc, row>>

---------------------------------------------------------------------------
(* write_to_xlsx *)

\* except Exception as exc: raise RuntimeError(...) from exc
ExportRaise(kind) ==
    /\ pc' = "crashed"
    /\ exc' = "RuntimeError: export"
    /\ cause' = kind

Call(op, r, c, arg) == [op |-> op, row |-> r, col |-> c, arg |-> arg]

\* workbook = xlsxwriter.Workbook(xlsx_filename) and its worksheet and
\* formats: nothing is written at xlsx_filename before close().
open_workbook ==
    /\ pc = "wx_open"
    /\ doc' = <<>>
    /\ pc' = "wx_header"
    /\ UNCHANGED <<exc, cause, remote, latest_version, update_choice, tempdir,
                   assets, downloaded, installed, yes_to_all, in_exists,
                   out_existing, out_written, overwrite_choice, codes, infos,
                   row>>

\* for i, fieldname in enumerate(fieldnames):
\*     worksheet.write(0, i, fieldname, header_format)
write_header ==
    /\ pc = "wx_header"
    /\ doc' = doc \o [i \in 1..Len(fieldnames) |->
                         Call("write", 0, i - 1, fieldnames[i])]
    /\ pc' = "wx_widen"
    /\ UNCHANGED <<exc, cause, remote, latest_version, update_choice, tempdir,
                   assets, downloaded, installed, yes_to_all, in_exists,
                   out_existing, out_written, overwrite_choice, codes, infos,
                   row>>

\* The width the second widening loop gives column i, 0 if it gives none.
NameWidth(i) ==
    IF fieldnames[i] = "fund_name" THEN 22
    ELSE IF fieldnames[i] = "estimate_date" THEN 17
    ELSE IF fieldnames[i] \in {"estimate_value", "estimate_growth"} THEN 11
    ELSE 0

\* The two loops of worksheet.set_column calls.
widen_columns ==
    /\ pc = "wx_widen"
    /\ LET dates == SelectSeq([i \in 1..Len(fieldtypes) |-> i],
                              LAMBDA i : fieldtypes[i] = "date")
           names == SelectSeq([i \in 1..Len(fieldnames) |-> i],
                              LAMBDA i : NameWidth(i) # 0)
       IN  doc' = doc
                  \o [k \in 1..Len(dates) |->
                         Call("set_column", 0, dates[k] - 1, 13)]
                  \o [k \in 1..Len(names) |->
                         Call("set_column", 0, names[k] - 1, NameWidth(names[k]))]
    /\ row' = 0
    /\ pc' = "wx_body"
    /\ UNCHANGED <<exc, cause, remote, latest_version, update_choice, tempdir,
                   assets, downloaded, installed, yes_to_all, in_exists,
                   out_existing, out_written, overwrite_choice, codes, infos>>

\* What writing column col of info raises, "" if nothing.
CellError(info, col) ==
    IF fieldnames[col] \notin DOMAIN info THEN "KeyError"
    ELSE IF fieldtypes[col] = "number" /\ info[fieldnames[col]] \notin FloatTexts
    THEN "ValueError: float"
    ELSE IF fieldtypes[col] = "date" /\ info[fieldnames[col]] \notin DateTexts
    THEN "ValueError: strptime"
    ELSE ""

\* The call that writes column col of info in row r + 1.
CellCall(info, r, col) ==
    Call(IF fieldtypes[col] = "string" THEN "write_string"
         ELSE IF fieldtypes[col] = "number" THEN "write_number"
         ELSE "write_datetime",
         r + 1, col - 1, info[fieldnames[col]])

BodyFinishedEarly(r, n) == r + 1 >= n

\* The body loop has gone through all n records.
BodyFinished(r, n) == r >= n

\* One turn of "for row, info in enumerate(infos)": the cells of the row in
\* schema order, up to the first that raises.
write_row ==
    /\ pc = "wx_body"
    /\ ~BodyFinished(row, Len(infos))
    /\ LET info == infos[row + 1]
           bad == {c \in 1..Len(fieldnames) : CellError(info, c) # ""}
           stop == IF bad = {} THEN Len(fieldnames) + 1
                   ELSE CHOOSE c \in bad : \A d \in bad : c <= d
       IN  /\ doc' = doc \o [c \in 1..(stop - 1) |-> CellCall(info, row, c)]
           /\ IF bad = {}
              THEN /\ row' = row + 1
                   /\ UNCHANGED <<pc, exc, cause>>
              ELSE /\ ExportRaise(CellError(info, stop))
                   /\ UNCHANGED row
    /\ UNCHANGED <<remote, latest_version, update_choice, tempdir, assets,
                   downloaded, installed, yes_to_all, in_exists, out_existing,
                   out_written, overwrite_choice, codes, infos>>

\* workbook.close(): the package is written at xlsx_filename itself, so a
\* close that fails has either not touched the path or left part of the
\* package there.
close ==
    /\ pc = "wx_body"
    /\ BodyFinished(row, Len(infos))
    /\ doc' = Append(doc, Call("close", 0, 0, 0))
    /\ \/ /\ out_written' = "complete"
          /\ pc' = "done"
          /\ UNCHANGED <<exc, cause>>
       \/ /\ out_written' \in {out_written, "partial"}
          /\ ExportRaise("FileCreateError")
    /\ UNCHANGED <<remote, latest_version, update_choice, tempdir, assets,
                   downloaded, installed, yes_to_all, in_exists, out_existing,
                   overwrite_choice, codes, infos, row>>

\* input("按下回车键以退出") and the end of main
finish ==
    /\ pc = "done"
    /\ pc' = "exited"
    /\ UNCHANGED <<exc, cause, remote, latest_version, update_choice, tempdir,
                   assets, downloaded, installed, yes_to_all, in_exists,
                   out_existing, out_written, overwrite_choice, codes, infos,
                   doc, row>>

---------------------------------------------------------------------------
(* The process *)

Init ==
    /\ pc = "cu_fetch"
    /\ exc = ""
    /\ cause = ""
    /\ remote \in ReleaseTags
    /\ latest_version = None
    /\ update_choice = None
    /\ tempdir = NoDir
    /\ assets = None
    /\ downloaded = None
    /\ installed = None
    /\ yes_to_all \in BOOLEAN
    /\ in_exists \in BOOLEAN
    /\ out_existing \in {"absent", "file", "dir"}
    /\ out_written = "no"
    /\ overwrite_choice = None
    /\ codes = <<>>
    /\ infos = <<>>
    /\ doc = <<>>
    /\ row = 0

Next ==
    \/ Publish
    \/ get_latest_released_version
    \/ check_update_compare
    \/ check_update_prompt
    \/ get_latest_released_asset
    \/ extract
    \/ move
    \/ exit_after_update
    \/ check_args
    \/ check_args_prompt
    \/ read_codes
    \/ clean_codes
    \/ fetch_infos
    \/ open_workbook
    \/ write_header
    \/ widen_columns
    \/ write_row
    \/ close
    \/ finish

Spec == Init /\ [][Next]_vars

---------------------------------------------------------------------------
(* Notions the properties are stated with *)

UpdatePcs == {"up_download", "up_extract", "up_move"}

ExportPcs ==
    {"ca_check", "ca_prompt", "read", "clean", "fetch", "wx_open",
     "wx_header", "wx_widen", "wx_body", "done"}

\* Strictly greater in the order by major, then minor, then patch.
LexGreater(a, b) ==
    \/ a[1] > b[1]
    \/ a[1] = b[1] /\ a[2] > b[2]
    \/ a[1] = b[1] /\ a[2] = b[2] /\ a[3] > b[3]

\* check_update has read the latest tag and compared it.
Compared == latest_version # None /\ pc # "cu_compare"

\* The latest tag parsed, and to more than the local version.
Available ==
    /\ parse_version_number(The(latest_version)) # NoMatch
    /\ LexGreater(parse_version_number(The(latest_version)),
                  parse_version_number(LocalVersion))

\* s is all digits 0-9 and not empty.
IsNumber(s) == s # <<>> /\ \A i \in 1..Len(s) : s[i] \in AsciiDigits

\* s is, from its first to its last character, v?M.N.P.
IsVersionShape(s) ==
    LET b == IF s # <<>> /\ s[1] = "v" THEN Tail(s) ELSE s
    IN  \E p, q \in 1..Len(b) :
           /\ p < q
           /\ b[p] = "." /\ b[q] = "."
           /\ IsNumber(SubSeq(b, 1, p - 1))
           /\ IsNumber(SubSeq(b, p + 1, q - 1))
           /\ IsNumber(SubSeq(b, q + 1, Len(b)))

\* The number of assets of the list read that carry the wanted name.
Matches ==
    Cardinality({i \in DOMAIN The(assets) : The(assets)[i].name = RELEASE_ASSET_NAME})

\* Exactly six characters, each one of 0-9.
IsSixAsciiDigits(code) ==
    Len(code) = 6 /\ \A i \in 1..6 : code[i] \in AsciiDigits

BodyOps == {"write_string", "write_number", "write_datetime"}

Closed == doc # <<>> /\ doc[Len(doc)].op = "close"

---------------------------------------------------------------------------
(* Properties *)

\* C1: check_update prompts (and so can reach update()) exactly when the
\* parsed remote version is strictly greater than the parsed local version,
\* by major, then minor, then patch; otherwise it returns without prompting
\* and without calling update().  (1,2,3) < (1,3,0), (2,0,0) > (1,9,9) and
\* (1,0,0) = (1,0,0).
C1_UpdateIffStrictlyGreater ==
    /\ VersionGreater(<<1, 3, 0>>, <<1, 2, 3>>)
    /\ ~VersionGreater(<<1, 2, 3>>, <<1, 3, 0>>)
    /\ VersionGreater(<<2, 0, 0>>, <<1, 9, 9>>)
    /\ ~VersionGreater(<<1, 0, 0>>, <<1, 0, 0>>)
    /\ Compared =>
          IF Available
          THEN pc = "cu_prompt" \/ update_choice # None
          ELSE /\ update_choice = None
               /\ pc \notin UpdatePcs \cup {"cu_prompt", "cu_exit"}
               /\ tempdir = NoDir /\ assets = None /\ installed = None

C1_Witness ==
    pc = "cu_prompt" /\ update_choice = None /\ Available

\* C2: the asset lookup fails with the not-found error when no asset has
\* the name, with the ambiguity error when two or more have it, and requests
\* the download of the one match only when exactly one has it.
C2_ExactlyOneAsset ==
    assets # None =>
       /\ Matches = 0 =>
             /\ pc = "crashed" /\ exc = "RuntimeError: No asset"
             /\ downloaded = None
       /\ Matches > 1 =>
             /\ pc = "crashed" /\ exc = "RuntimeError: More than one assets"
             /\ downloaded = None
       /\ Matches = 1 =>
             /\ downloaded # None
             /\ The(downloaded).name = RELEASE_ASSET_NAME
             /\ \E i \in DOMAIN The(assets) : The(assets)[i] = The(downloaded)
       /\ downloaded # None => Matches = 1

C2_Witness ==
    /\ assets # None /\ Matches = 2
    /\ exc = "RuntimeError: More than one assets"

\* C3: parse_version_number returns (M,N,P) for every string that is exactly
\* v?M.N.P and fails for every other string.
C3_ParseExactShape ==
    Compared =>
       IF IsVersionShape(The(latest_version))
       THEN /\ parse_version_number(The(latest_version)) # NoMatch
            /\ exc # "AttributeError"
       ELSE pc = "crashed" /\ exc = "AttributeError"

\* C4: whenever write_to_xlsx fails the caller gets the one wrapping error
\* with its cause, and the path is written only by a close that succeeds.
C4_NoPartialDocument ==
    /\ exc = "RuntimeError: export" => cause # "" /\ out_written = "no"
    /\ out_written # "no" => out_written = "complete" /\ pc \in {"done", "exited"}

\* C5: the header cells, one per field in schema order, come first; no body
\* cell precedes the end of the header and the widening; close comes once,
\* last, and after every row of infos has all its cells in schema order.
C5_PhaseOrder ==
    LET n == Len(fieldnames)
        body == SelectSeq(doc, LAMBDA c : c.op \in BodyOps)
    IN  /\ doc # <<>> =>
              /\ Len(doc) >= n
              /\ \A i \in 1..n : doc[i] = Call("write", 0, i - 1, fieldnames[i])
        /\ \A i \in 1..Len(doc) :
              /\ doc[i].op = "write" => i <= n
              /\ doc[i].op = "set_column" =>
                    \A j \in 1..i : doc[j].op \notin BodyOps
              /\ doc[i].op = "close" => i = Len(doc)
        /\ \A k \in 1..Len(body) :
              /\ body[k].row = ((k - 1) \div n) + 1
              /\ body[k].col = (k - 1) % n
        /\ Closed =>
              /\ pc \in {"done", "exited", "crashed"}
              /\ Len(body) = n * Len(infos)
              /\ Len(SelectSeq(doc, LAMBDA c : c.op = "set_column")) > 0
        /\ pc \in {"done", "exited"} /\ out_written = "complete" => Closed

C5_Witness ==
    Closed /\ Len(infos) >= 1 /\ pc = "done"

\* C6: when control is outside update() the temporary directory and all
\* that was in it are gone, however update() ended.
C6_TempDirRemoved ==
    pc \notin UpdatePcs => tempdir = NoDir

C6_Witness ==
    pc = "crashed" /\ exc \in {"KeyError", "PermissionError"} /\ tempdir = NoDir

\* C7: after a successful update the process only exits and nothing of the
\* export has run; update() is entered only when an update is available and
\* the answer was yes; after a decline or with no update available the
\* process goes on into the export flow.
C7_UpdateThenExit ==
    /\ installed # None =>
          /\ pc \in {"cu_exit", "exited"}
          /\ overwrite_choice = None /\ codes = <<>> /\ infos = <<>>
          /\ doc = <<>> /\ out_written = "no"
    /\ (pc \in UpdatePcs \/ tempdir # NoDir \/ assets # None \/ installed # None) =>
          update_choice = Some(Yes) /\ Available
    /\ (Compared /\ (update_choice = Some(No) \/ ~Available) /\ exc # "AttributeError") =>
          /\ pc \in ExportPcs \cup {"exited", "crashed"}
          /\ pc = "exited" => overwrite_choice = Some(No) \/ out_written = "complete"
          /\ pc = "crashed" =>
                exc \in {"FileNotFoundError",
                         "RuntimeError: directory of the same name",
                         "ConnectionError", "RuntimeError: export"}

C7_Witness ==
    installed # None /\ pc = "exited"

\* C8: the accepted codes are exactly the lines of six characters 0-9, in
\* their order, duplicates kept.
C8_OnlySixAsciiDigits ==
    [][pc = "clean" => codes' = SelectSeq(codes, IsSixAsciiDigits)]_vars

\* C9: a file that exists at the output path is written over only with
\* yes_to_all or after the answer yes; another answer than yes or no only
\* asks again; no ends the process with no record fetched and no document
\* opened.
C9_NoSilentOverwrite ==
    /\ (out_existing = "file" /\ (pc \in ExportPcs \ {"ca_check", "ca_prompt"}
                                   \/ out_written # "no" \/ doc # <<>>)) =>
          yes_to_all \/ overwrite_choice = Some(Yes)
    /\ overwrite_choice \notin {None, Some(Yes), Some(No)} => pc = "ca_prompt"
    /\ overwrite_choice = Some(No) =>
          /\ pc = "exited"
          /\ codes = <<>> /\ infos = <<>> /\ doc = <<>> /\ out_written = "no"
    /\ out_existing = "dir" => out_written = "no"

C9_Witness ==
    out_existing = "file" /\ ~yes_to_all /\ out_written = "complete"

\* C10: the version in the installed file's name is the tag of the release
\* the installed bytes were built for.
C10_NameMatchesBuild ==
    installed # None => The(installed).version = The(installed).build

===========================================================================
